---- MODULE Spec2Model ----
(***************************************************************************)
(* Model of lib/passport-facebook-authcode/strategy.js.                    *)
(*                                                                         *)
(* One FacebookAuthCodeStrategy instance (its configuration is fixed at    *)
(* construction) serves authentication attempts.  An attempt is one call   *)
(* of authenticate(req); it runs synchronously until it hands a callback   *)
(* to a collaborator (token exchange, asynchronous skip predicate, profile *)
(* fetch, verify callback) and continues when that callback is invoked.    *)
(* Every action below is one such synchronous run of the code.             *)
(***************************************************************************)
EXTENDS Integers, Sequences, FiniteSets, TLC

(***************************************************************************)
(* Bounds                                                                  *)
(***************************************************************************)
NumAttempts == 2

Attempts == 1..NumAttempts

\* the attempts that run under Spec (one attempt at a time)
Single == {1}

(***************************************************************************)
(* JavaScript values.  Primitive values are strings; the values that are   *)
(* not strings of the program are written in angle brackets.               *)
(***************************************************************************)
Undef == "<undefined>"

Null == "<null>"

False == "<false>"

True == "<true>"

\* ToBoolean: undefined, null, false and the empty string are falsy
Truthy(v) == v \notin {Undef, Null, False, ""}

\* the || operator: the left operand when it is truthy, else the right one
Or(l, r) == IF Truthy(l) THEN l ELSE r

\* the value of a variable that holds no profile (done(null), done(err))
UndefinedProfile == [undefined |-> TRUE]

TypeError == "TypeError"

SyntaxError == "SyntaxError"

\* the exception an application's verify function may raise
VerifyException == "VerifyException"

(***************************************************************************)
(* Inputs: requests, collaborator results                                  *)
(***************************************************************************)
NoQuery == [present |-> FALSE, error |-> Undef, code |-> Undef, redirectUri |-> Undef]

Queries ==
  {NoQuery} \cup
  [present : {TRUE}, error : {Undef, "", "access_denied"},
   code : {Undef, "", "qcode"}, redirectUri : {Undef, "quri"}]

NoBody == [present |-> FALSE, code |-> Undef, redirectUri |-> Undef]

Bodies ==
  {NoBody} \cup
  [present : {TRUE}, code : {Undef, "", "bcode"}, redirectUri : {Undef, "buri"}]

Requests == [query : Queries, body : Bodies]

ExchangeErrors == {"exchangeError"}

AccessTokens == {"A", "A2"}

RefreshTokens == {"B", Undef}

\* what getOAuthAccessToken passes to its callback: (err, accessToken, refreshToken)
ExchangeResults ==
  [err : ExchangeErrors, accessToken : {Undef}, refreshToken : {Undef}] \cup
  [err : {Null}, accessToken : AccessTokens, refreshToken : RefreshTokens]

\* what a two-argument skipUserProfile passes to its callback: (err, skip)
SkipResults ==
  [err : {"skipError"}, skip : {Undef}] \cup [err : {Null}, skip : {True, False}]

\* response bodies of the identity endpoint
ResponseBodies ==
  { "<html>oops</html>",
    "null",
    "42",
    "{}",
    "{\"id\":\"42\",\"name\":\"Jane Doe\",\"email\":\"jane@example.com\"}",
    "{\"id\":\"7\",\"name\":\"J D\",\"family_name\":\"D\",\"given_name\":\"J\"}" }

\* what _oauth2.get passes to its callback: (err, body)
FetchResults ==
  [err : {"fetchError"}, body : {Undef}] \cup [err : {Null}, body : ResponseBodies]

\* the ways an application's verify function can behave when it is called:
\*   async      it returns, and calls verified(err, user, info) later
\*   sync       it calls verified(err, user, info) and then returns
\*   syncThrow  it calls verified(err, user, info) and then raises
\*   throw      it raises without ever calling verified
VerifyResults == [err : {Null, "verifyError"}, user : {False, "user1"}, info : {Undef, "info1"}]

NoVerifyResult == [err |-> Null, user |-> False, info |-> Undef]

VerifyBehaviours ==
  [mode : {"sync", "syncThrow"}, res : VerifyResults] \cup
  [mode : {"async", "throw"}, res : {NoVerifyResult}]

(***************************************************************************)
(* Configuration: the skipUserProfile setting is a plain value, a function *)
(* of at most one argument, or a function of two arguments                 *)
(***************************************************************************)
SkipSettings ==
  [form : {"value"}, val : {True, False, Undef}] \cup
  [form : {"function"}, length : {0, 1, 2}]

\* what a skipUserProfile function of at most one argument may return
SkipReturns == {True, False}

PassReqSettings == {True, False, Undef}

VARIABLES
  skipUserProfile,      \* this._skipUserProfile
  passReqToCallback,    \* this._passReqToCallback
  pc,                   \* per attempt: where the attempt is suspended
  req,                  \* per attempt: the request given to authenticate
  tokens,               \* per attempt: accessToken, refreshToken of the exchange callback
  signals,              \* per attempt: the terminal signals emitted, in order
  thrown,               \* per attempt: exceptions that left the strategy's code
  exchangeCalls,        \* per attempt: calls of _oauth2.getOAuthAccessToken
  exchangeResults,      \* per attempt: completions of the token exchange
  skipCalls,            \* per attempt: calls of the skipUserProfile function
  skipResults,          \* per attempt: results of the skipUserProfile function
  fetchCalls,           \* per attempt: calls of _oauth2.get
  fetchResults,         \* per attempt: completions of the fetch
  profileDone,          \* per attempt: calls of userProfile's done callback
  verifyCalls,          \* per attempt: calls of the verify callback
  verifiedCalls         \* per attempt: calls of verified(err, user, info)

vars == << skipUserProfile, passReqToCallback, pc, req, tokens, signals, thrown,
           exchangeCalls, exchangeResults, skipCalls, skipResults, fetchCalls,
           fetchResults, profileDone, verifyCalls, verifiedCalls >>

config == << skipUserProfile, passReqToCallback >>


(***************************************************************************)
(* The terminal signals of passport's strategy interface                   *)
(***************************************************************************)
success(user, info) == [kind |-> "success", user |-> user, info |-> info]

fail(info) == [kind |-> "fail", info |-> info]

error(err) == [kind |-> "error", err |-> err]

(***************************************************************************)
(* authenticate: request validation (lines 68-85)                          *)
(***************************************************************************)
\* a slip that lets a request with a code through in spite of the error
hasQueryErrorAndNoCode(r) ==
  r.query.present /\ Truthy(r.query.error) /\ ~Truthy(r.query.code)

\* line 68: req.query && req.query.error
hasQueryError(r) == r.query.present /\ Truthy(r.query.error)

\* a slip that accepts a request without a body when it has a query
lacksBodyAndQuery(r) == ~r.body.present /\ ~r.query.present

\* line 74: !req.body
lacksBody(r) == ~r.body.present

\* line 78: req.body.code || req.query.code reads a property of req.query
\* when the body's code is falsy; this raises a TypeError without a query
authCodeThrows(r) == ~Truthy(r.body.code) /\ ~r.query.present

\* a slip that prefers the query's code to the body's
authCodeOfQueryFirst(r) == Or(r.query.code, r.body.code)

\* line 78
authCodeOf(r) == Or(r.body.code, r.query.code)

\* line 80: the same for req.body.redirectUri || req.query.redirectUri
redirectUriThrows(r) == ~Truthy(r.body.redirectUri) /\ ~r.query.present

\* line 80
redirectUriOf(r) == Or(r.body.redirectUri, r.query.redirectUri)

\* lines 115-121: the call _exchangeAuthCode makes
exchangeAuthCode(authCode, redirectUri) ==
  [code |-> authCode,
   params |-> [grant_type |-> "authorization_code", redirect_uri |-> redirectUri]]

(***************************************************************************)
(* The result of running a piece of code synchronously: the signals it     *)
(* emitted, the exception that left it (at most one), the calls it made of *)
(* verify and of verified, and where the attempt is afterwards.            *)
(***************************************************************************)
Run(sigs, exc, vcalls, vdcalls, next) ==
  [sigs |-> sigs, thrown |-> exc, verifyCalls |-> vcalls, verifiedCalls |-> vdcalls,
   profileDone |-> <<>>, skipCalls |-> <<>>, fetchCalls |-> <<>>, exchangeCalls |-> <<>>,
   pc |-> next]

\* r1 raised an exception that was caught, and r2 is the run of the handler
Then(r1, r2) ==
  [sigs |-> r1.sigs \o r2.sigs, thrown |-> r2.thrown,
   verifyCalls |-> r1.verifyCalls \o r2.verifyCalls,
   verifiedCalls |-> r1.verifiedCalls \o r2.verifiedCalls,
   profileDone |-> r1.profileDone \o r2.profileDone,
   skipCalls |-> r1.skipCalls \o r2.skipCalls,
   fetchCalls |-> r1.fetchCalls \o r2.fetchCalls,
   exchangeCalls |-> r1.exchangeCalls \o r2.exchangeCalls,
   pc |-> r2.pc]

\* a slip that loses the test of err
verifiedIgnoringErr(err, user, info) ==
  IF ~Truthy(user) THEN fail(info) ELSE success(user, info)

\* a slip that tests user before err
verifiedUserFirst(err, user, info) ==
  IF ~Truthy(user) THEN fail(info)
  ELSE IF Truthy(err) THEN error(err)
  ELSE success(user, info)

\* lines 93-97
verified(err, user, info) ==
  IF Truthy(err) THEN error(err)
  ELSE IF ~Truthy(user) THEN fail(info)
  ELSE success(user, info)

\* a call verified(err, user, info); sync tells whether verify was still
\* running when it made the call
verifiedCall(vr, sync) == [err |-> vr.err, user |-> vr.user, info |-> vr.info, sync |-> sync]

\* a slip that passes the request unless passReqToCallback is false
verifyArgsUnlessFalse(passReq, r, accessToken, refreshToken, profile) ==
  IF passReq # False
    THEN <<r, accessToken, refreshToken, profile, "verified">>
    ELSE <<accessToken, refreshToken, profile, "verified">>

\* lines 99-103: the arguments verify is called with
verifyArgs(passReq, r, accessToken, refreshToken, profile) ==
  IF Truthy(passReq)
    THEN <<r, accessToken, refreshToken, profile, "verified">>
    ELSE <<accessToken, refreshToken, profile, "verified">>

\* line 91: what the attempt signals when _loadUserProfile reports err
onLoadError(err) == fail(err)

\* lines 90-104: the callback authenticate gives to _loadUserProfile,
\* run with a verify function that behaves as vb
loadUserProfileCallback(a, tk, err, profile, vb) ==
  IF Truthy(err)
    THEN Run(<<onLoadError(err)>>, <<>>, <<>>, <<>>, "done")
    ELSE LET args == verifyArgs(passReqToCallback, req[a], tk.accessToken, tk.refreshToken, profile)
             res  == verifiedCall(vb.res, TRUE)
             sig  == verified(vb.res.err, vb.res.user, vb.res.info)
         IN  CASE vb.mode = "async"     -> Run(<<>>, <<>>, <<args>>, <<>>, "verifying")
               [] vb.mode = "sync"      -> Run(<<sig>>, <<>>, <<args>>, <<res>>, "done")
               [] vb.mode = "syncThrow" -> Run(<<sig>>, <<VerifyException>>, <<args>>, <<res>>, "done")
               [] vb.mode = "throw"     -> Run(<<>>, <<VerifyException>>, <<args>>, <<>>, "done")

(***************************************************************************)
(* userProfile (lines 138-160)                                             *)
(***************************************************************************)
ProfileURL == "https://graph.facebook.com/v2.2/me"

\* passport-oauth's InternalOAuthError(message, err), which keeps the cause
InternalOAuthError(message, err) == "InternalOAuthError: " \o message \o ": " \o err

NoJson == [kind |-> "none", id |-> Undef, name |-> Undef, family_name |-> Undef,
           given_name |-> Undef, email |-> Undef]

JsonObject(id, name, family, given, email) ==
  [kind |-> "object", id |-> id, name |-> name, family_name |-> family,
   given_name |-> given, email |-> email]

\* line 143: JSON.parse on the response bodies of ResponseBodies; ok is FALSE
\* when it raises a SyntaxError
JSONparse(body) ==
  CASE body = "null" -> [ok |-> TRUE, value |-> [NoJson EXCEPT !.kind = "null"]]
    [] body = "42"   -> [ok |-> TRUE, value |-> [NoJson EXCEPT !.kind = "number"]]
    [] body = "{}"   -> [ok |-> TRUE, value |-> JsonObject(Undef, Undef, Undef, Undef, Undef)]
    [] body = "{\"id\":\"42\",\"name\":\"Jane Doe\",\"email\":\"jane@example.com\"}"
                     -> [ok |-> TRUE, value |-> JsonObject("42", "Jane Doe", Undef, Undef, "jane@example.com")]
    [] body = "{\"id\":\"7\",\"name\":\"J D\",\"family_name\":\"D\",\"given_name\":\"J\"}"
                     -> [ok |-> TRUE, value |-> JsonObject("7", "J D", "D", "J", Undef)]
    [] OTHER         -> [ok |-> FALSE, value |-> NoJson]

\* json.<field>: undefined on a number, the field's value on an object
Prop(json, field) == IF json.kind = "object" THEN json[field] ELSE Undef

\* json.id on null raises a TypeError (line 146)
propThrows(json) == json.kind = "null"

\* a slip that exchanges the two parts of the name
normalizeNamesSwapped(body, json) ==
  [provider |-> "facebook",
   id |-> Prop(json, "id"),
   displayName |-> Prop(json, "name"),
   name |-> [familyName |-> Prop(json, "given_name"), givenName |-> Prop(json, "family_name")],
   emails |-> << [value |-> Prop(json, "email")] >>,
   raw |-> body,
   json |-> json]

\* lines 145-153 (raw and json stand for _raw and _json)
normalize(body, json) ==
  [provider |-> "facebook",
   id |-> Prop(json, "id"),
   displayName |-> Prop(json, "name"),
   name |-> [familyName |-> Prop(json, "family_name"), givenName |-> Prop(json, "given_name")],
   emails |-> << [value |-> Prop(json, "email")] >>,
   raw |-> body,
   json |-> json]

\* userProfile's done, which authenticate's callback of lines 90-104 receives
\* through loadIt (line 174)
done(a, tk, err, profile, vb) ==
  [loadUserProfileCallback(a, tk, err, profile, vb)
     EXCEPT !.profileDone = << [err |-> err, profile |-> profile] >>]

\* lines 139-159: the callback userProfile gives to _oauth2.get, called with fr
userProfileCallback(a, tk, fr, vb) ==
  IF Truthy(fr.err)
    THEN done(a, tk, InternalOAuthError("failed to fetch user profile", fr.err),
              UndefinedProfile, vb)
    ELSE LET parsed == JSONparse(fr.body) IN
         IF ~parsed.ok THEN done(a, tk, SyntaxError, UndefinedProfile, vb)
         ELSE IF propThrows(parsed.value) THEN done(a, tk, TypeError, UndefinedProfile, vb)
         ELSE LET r == done(a, tk, Null, normalize(fr.body, parsed.value), vb) IN
              IF r.thrown # <<>>
                THEN Then(r, done(a, tk, Head(r.thrown), UndefinedProfile, vb))
                ELSE r

(***************************************************************************)
(* _loadUserProfile (lines 170-192)                                        *)
(***************************************************************************)
\* line 180
isAsyncSkip(s) == s.form = "function" /\ s.length > 1

\* a slip that hands the fetch the other token of the exchange
loadItRefreshToken(tk) ==
  [Run(<<>>, <<>>, <<>>, <<>>, "loading")
     EXCEPT !.fetchCalls = << [url |-> ProfileURL, accessToken |-> tk.refreshToken] >>]

\* lines 173-175 with line 139: the fetch userProfile starts; tk holds the
\* accessToken and refreshToken of the exchange callback
loadIt(tk) ==
  [Run(<<>>, <<>>, <<>>, <<>>, "loading")
     EXCEPT !.fetchCalls = << [url |-> ProfileURL, accessToken |-> tk.accessToken] >>]

\* lines 176-178
skipIt(a, tk, vb) == loadUserProfileCallback(a, tk, Null, UndefinedProfile, vb)

\* a slip that inverts the test of the skip value
loadOrSkipInverted(a, tk, skip, vb) ==
  IF Truthy(skip) THEN loadIt(tk) ELSE skipIt(a, tk, vb)

\* a slip that loses the return of `return loadIt()`: after starting the
\* fetch it falls through to skipIt
loadOrSkipFallThrough(a, tk, skip, vb) ==
  IF ~Truthy(skip)
    THEN [Then(loadIt(tk), skipIt(a, tk, vb)) EXCEPT !.pc = "loading"]
    ELSE skipIt(a, tk, vb)

\* lines 184-185 and 189-190
loadOrSkip(a, tk, skip, vb) ==
  IF ~Truthy(skip) THEN loadIt(tk) ELSE skipIt(a, tk, vb)

\* line 182: the arguments the two-argument skipUserProfile is called with
asyncSkipArgs(accessToken) == <<accessToken, "callback">>

\* lines 180-191, with sr the value a function of at most one argument returns
loadUserProfile(a, tk, sr, vb) ==
  IF isAsyncSkip(skipUserProfile)
    THEN [Run(<<>>, <<>>, <<>>, <<>>, "deciding")
            EXCEPT !.skipCalls = << asyncSkipArgs(tk.accessToken) >>]
    ELSE IF skipUserProfile.form = "function"
           THEN [loadOrSkip(a, tk, sr, vb) EXCEPT !.skipCalls = << <<>> >>]
           ELSE loadOrSkip(a, tk, skipUserProfile.val, vb)

\* a slip that goes on to the skip decision although err is set
skipCallbackIgnoringErr(a, tk, sres, vb) == loadOrSkip(a, tk, sres.skip, vb)

\* lines 182-186: the callback given to the two-argument skipUserProfile
skipCallback(a, tk, sres, vb) ==
  IF Truthy(sres.err)
    THEN loadUserProfileCallback(a, tk, sres.err, UndefinedProfile, vb)
    ELSE loadOrSkip(a, tk, sres.skip, vb)

(***************************************************************************)
(* authenticate (lines 64-106)                                             *)
(***************************************************************************)
\* lines 68-87: the synchronous part
authenticate(r) ==
  IF hasQueryError(r) THEN Run(<<fail(Undef)>>, <<>>, <<>>, <<>>, "done")
  ELSE IF lacksBody(r) THEN Run(<<fail(Undef)>>, <<>>, <<>>, <<>>, "done")
  ELSE IF authCodeThrows(r) THEN Run(<<>>, <<TypeError>>, <<>>, <<>>, "done")
  ELSE IF redirectUriThrows(r) THEN Run(<<>>, <<TypeError>>, <<>>, <<>>, "done")
  ELSE IF ~Truthy(authCodeOf(r)) THEN Run(<<fail(Undef)>>, <<>>, <<>>, <<>>, "done")
  ELSE [Run(<<>>, <<>>, <<>>, <<>>, "exchanging")
          EXCEPT !.exchangeCalls = << exchangeAuthCode(authCodeOf(r), redirectUriOf(r)) >>]

\* a slip that reports a failed exchange as a system error
onExchangeErrorAsError(err) == error(err)

\* line 88: what the attempt signals when the exchange reports err
onExchangeError(err) == fail(err)

\* lines 87-105: the callback given to _exchangeAuthCode, called with er
exchangeCallback(a, er, sr, vb) ==
  IF Truthy(er.err)
    THEN Run(<<onExchangeError(er.err)>>, <<>>, <<>>, <<>>, "done")
    ELSE loadUserProfile(a, [accessToken |-> er.accessToken, refreshToken |-> er.refreshToken],
                         sr, vb)

(***************************************************************************)
(* State machine                                                           *)
(***************************************************************************)
NoRequest == [query |-> NoQuery, body |-> NoBody]

NoTokens == [accessToken |-> Undef, refreshToken |-> Undef]

Init ==
  /\ skipUserProfile \in SkipSettings
  /\ passReqToCallback \in PassReqSettings
  /\ pc = [a \in Attempts |-> "idle"]
  /\ req = [a \in Attempts |-> NoRequest]
  /\ tokens = [a \in Attempts |-> NoTokens]
  /\ signals = [a \in Attempts |-> <<>>]
  /\ thrown = [a \in Attempts |-> <<>>]
  /\ exchangeCalls = [a \in Attempts |-> <<>>]
  /\ exchangeResults = [a \in Attempts |-> <<>>]
  /\ skipCalls = [a \in Attempts |-> <<>>]
  /\ skipResults = [a \in Attempts |-> <<>>]
  /\ fetchCalls = [a \in Attempts |-> <<>>]
  /\ fetchResults = [a \in Attempts |-> <<>>]
  /\ profileDone = [a \in Attempts |-> <<>>]
  /\ verifyCalls = [a \in Attempts |-> <<>>]
  /\ verifiedCalls = [a \in Attempts |-> <<>>]

\* a slip that keeps the tokens on the strategy instance, where the
\* callbacks of every attempt read them
instanceTokens(a) == tokens[CHOOSE b \in Attempts : tokens[b] # NoTokens]

\* lines 87-90: accessToken and refreshToken are parameters of the exchange
\* callback of attempt a, which the later callbacks of a close over
closureTokens(a) == tokens[a]

\* the effect of a synchronous run r of attempt a on the state
Apply(a, r) ==
  /\ pc' = [pc EXCEPT ![a] = r.pc]
  /\ signals' = [signals EXCEPT ![a] = @ \o r.sigs]
  /\ thrown' = [thrown EXCEPT ![a] = @ \o r.thrown]
  /\ exchangeCalls' = [exchangeCalls EXCEPT ![a] = @ \o r.exchangeCalls]
  /\ skipCalls' = [skipCalls EXCEPT ![a] = @ \o r.skipCalls]
  /\ fetchCalls' = [fetchCalls EXCEPT ![a] = @ \o r.fetchCalls]
  /\ profileDone' = [profileDone EXCEPT ![a] = @ \o r.profileDone]
  /\ verifyCalls' = [verifyCalls EXCEPT ![a] = @ \o r.verifyCalls]
  /\ verifiedCalls' = [verifiedCalls EXCEPT ![a] = @ \o r.verifiedCalls]

\* the framework calls authenticate(r), for a request r of R
AuthenticateWith(a, R) ==
  /\ pc[a] = "idle"
  /\ \E r \in R :
       /\ req' = [req EXCEPT ![a] = r]
       /\ Apply(a, authenticate(r))
  /\ UNCHANGED << config, tokens, exchangeResults, skipResults, fetchResults >>

\* the framework calls authenticate(r)
Authenticate(a) == AuthenticateWith(a, Requests)

\* getOAuthAccessToken calls back with a result of ER
ExchangeDoneWith(a, ER, VB) ==
  /\ pc[a] = "exchanging"
  /\ \E er \in ER, sr \in SkipReturns, vb \in VB :
       LET r == exchangeCallback(a, er, sr, vb) IN
       /\ exchangeResults' = [exchangeResults EXCEPT ![a] = Append(@, er)]
       /\ tokens' = [tokens EXCEPT ![a] =
                       IF Truthy(er.err) THEN @
                       ELSE [accessToken |-> er.accessToken, refreshToken |-> er.refreshToken]]
       /\ skipResults' = [skipResults EXCEPT ![a] =
                            IF r.skipCalls = << <<>> >>
                              THEN Append(@, [err |-> Null, skip |-> sr]) ELSE @]
       /\ Apply(a, r)
  /\ UNCHANGED << config, req, fetchResults >>

\* getOAuthAccessToken calls back
ExchangeDone(a) == ExchangeDoneWith(a, ExchangeResults, VerifyBehaviours)

\* the two-argument skipUserProfile calls back
SkipDoneWith(a, VB) ==
  /\ pc[a] = "deciding"
  /\ \E sres \in SkipResults, vb \in VB :
       /\ skipResults' = [skipResults EXCEPT ![a] = Append(@, sres)]
       /\ Apply(a, skipCallback(a, closureTokens(a), sres, vb))
  /\ UNCHANGED << config, req, tokens, exchangeResults, fetchResults >>

\* the two-argument skipUserProfile calls back
SkipDone(a) == SkipDoneWith(a, VerifyBehaviours)

\* _oauth2.get calls back with a result of FR
FetchDoneWith(a, FR, VB) ==
  /\ pc[a] = "loading"
  /\ \E fr \in FR, vb \in VB :
       /\ fetchResults' = [fetchResults EXCEPT ![a] = Append(@, fr)]
       /\ Apply(a, userProfileCallback(a, closureTokens(a), fr, vb))
  /\ UNCHANGED << config, req, tokens, exchangeResults, skipResults >>

\* _oauth2.get calls back
FetchDone(a) == FetchDoneWith(a, FetchResults, VerifyBehaviours)

\* a verify function that returned without calling verified calls it with a
\* result of VR
VerifiedDoneWith(a, VR) ==
  /\ pc[a] = "verifying"
  /\ \E vr \in VR :
       Apply(a, Run(<<verified(vr.err, vr.user, vr.info)>>, <<>>, <<>>,
                    << verifiedCall(vr, FALSE) >>, "done"))
  /\ UNCHANGED << config, req, tokens, exchangeResults, skipResults, fetchResults >>

\* a verify function that returned without calling verified calls it
VerifiedDone(a) == VerifiedDoneWith(a, VerifyResults)

Next ==
  \E a \in Single :
    \/ Authenticate(a)
    \/ ExchangeDone(a)
    \/ SkipDone(a)
    \/ FetchDone(a)
    \/ VerifiedDone(a)

Spec == Init /\ [][Next]_vars

(***************************************************************************)
(* Concurrent attempts: every attempt of Attempts runs, and the callbacks  *)
(* of different attempts are interleaved in any order.  The inputs are a   *)
(* part of those of Spec: two requests,  exchanges that return a refresh  *)
(* token, two profile bodies, and verify functions that do not raise.      *)
(***************************************************************************)
ConcRequests ==
  { [query |-> NoQuery, body |-> [present |-> TRUE, code |-> "bcode", redirectUri |-> "buri"]],
    [query |-> [present |-> TRUE, error |-> Undef, code |-> "qcode", redirectUri |-> "quri"],
     body |-> [present |-> TRUE, code |-> Undef, redirectUri |-> Undef]] }

ConcSkipSettings ==
  { [form |-> "value", val |-> False], [form |-> "value", val |-> True],
    [form |-> "function", length |-> 2] }

ConcExchangeResults == { er \in ExchangeResults : Truthy(er.err) \/ Truthy(er.refreshToken) }

ConcFetchResults ==
  { fr \in FetchResults : Truthy(fr.err) \/ (JSONparse(fr.body).ok /\ Truthy(JSONparse(fr.body).value.id)) }

ConcVerifyBehaviours == { vb \in VerifyBehaviours : vb.mode = "async" }

ConcVerifyResults == { vr \in VerifyResults : ~Truthy(vr.err) /\ Truthy(vr.info) }

ConcInit ==
  /\ Init
  /\ skipUserProfile \in ConcSkipSettings
  /\ passReqToCallback \in {True, Undef}

ConcAuthenticate(a) == AuthenticateWith(a, ConcRequests)

ConcExchangeDone(a) == ExchangeDoneWith(a, ConcExchangeResults, ConcVerifyBehaviours)

ConcSkipDone(a) == SkipDoneWith(a, ConcVerifyBehaviours)

ConcFetchDone(a) == FetchDoneWith(a, ConcFetchResults, ConcVerifyBehaviours)

ConcVerifiedDone(a) == VerifiedDoneWith(a, ConcVerifyResults)

ConcNext ==
  \E a \in Attempts :
    \/ ConcAuthenticate(a)
    \/ ConcExchangeDone(a)
    \/ ConcSkipDone(a)
    \/ ConcFetchDone(a)
    \/ ConcVerifiedDone(a)

ConcSpec == ConcInit /\ [][ConcNext]_vars

TypeOK ==
  /\ skipUserProfile \in SkipSettings
  /\ passReqToCallback \in PassReqSettings
  /\ \A a \in Attempts :
       /\ pc[a] \in {"idle", "exchanging", "deciding", "loading", "verifying", "done"}
       /\ req[a] \in Requests \cup {NoRequest}
       /\ Len(signals[a]) <= 2
(***************************************************************************)
(* Properties                                                              *)
(***************************************************************************)
Started(a) == pc[a] # "idle"

\* the completion of the token exchange of attempt a succeeded
ExchangeSucceeded(a) == exchangeResults[a] # <<>> /\ ~Truthy(exchangeResults[a][1].err)

\* the profile argument of a call of verify
ProfileArg(args) == args[Len(args) - 1]

\* C1: an attempt never emits more than one terminal signal (success, fail
\* or error), whatever the request and the results of the collaborators.
C1_AtMostOneSignal ==
  \A a \in Attempts : Len(signals[a]) <= 1

\* C2: when userProfile's done is called with a failure, the attempt's
\* signal is error carrying that failure, and verify is not called in
\* that attempt.
C2_ProfileFailureIsError ==
  \A a \in Attempts :
    \A i \in 1..Len(profileDone[a]) :
      Truthy(profileDone[a][i].err) =>
        /\ signals[a] = << error(profileDone[a][i].err) >>
        /\ verifyCalls[a] = <<>>

\* C3: when the two-argument skip function completes with an err, the
\* attempt's signal is error carrying it, and neither the fetch nor verify
\* is called.
C3_AsyncSkipErrorIsError ==
  \A a \in Attempts :
    \A i \in 1..Len(skipResults[a]) :
      Truthy(skipResults[a][i].err) =>
        /\ signals[a] = << error(skipResults[a][i].err) >>
        /\ fetchCalls[a] = <<>>
        /\ verifyCalls[a] = <<>>

\* C4: when the token exchange fails, the attempt's only signal is fail
\* with the exchange error as info, and the skip function, the fetch,
\* userProfile's done and verify are never called in that attempt.
C4_ExchangeFailureIsFail ==
  \A a \in Attempts :
    \A i \in 1..Len(exchangeResults[a]) :
      Truthy(exchangeResults[a][i].err) =>
        /\ signals[a] = << fail(exchangeResults[a][i].err) >>
        /\ pc[a] = "done"
        /\ skipCalls[a] = <<>>
        /\ fetchCalls[a] = <<>>
        /\ profileDone[a] = <<>>
        /\ verifyCalls[a] = <<>>

C4_Witness ==
  \E a \in Attempts :
    /\ exchangeCalls[a] # <<>>
    /\ exchangeResults[a] # <<>>
    /\ exchangeResults[a][1].err = "exchangeError"
    /\ signals[a] # <<>>

\* C5: a request whose query has a truthy error ends its attempt at once
\* with the fail signal, whatever its body and codes are, and the attempt
\* calls neither the exchange nor the fetch nor verify.
C5_QueryErrorFails ==
  \A a \in Attempts :
    (Started(a) /\ req[a].query.present /\ Truthy(req[a].query.error)) =>
      /\ Len(signals[a]) = 1
      /\ signals[a][1].kind = "fail"
      /\ pc[a] = "done"
      /\ exchangeCalls[a] = <<>>
      /\ fetchCalls[a] = <<>>
      /\ verifyCalls[a] = <<>>

C5_Witness ==
  \E a \in Attempts :
    /\ Started(a)
    /\ req[a].query.error = "access_denied"
    /\ req[a].body.present
    /\ req[a].body.code = "bcode"
    /\ signals[a] # <<>>

\* C6: a request without a body ends its attempt with the fail signal,
\* whatever its query holds, and the attempt makes no exchange call.
C6_NoBodyFails ==
  \A a \in Attempts :
    (Started(a) /\ ~req[a].body.present) =>
      /\ Len(signals[a]) = 1
      /\ signals[a][1].kind = "fail"
      /\ pc[a] = "done"
      /\ exchangeCalls[a] = <<>>

C6_Witness ==
  \E a \in Attempts :
    /\ Started(a)
    /\ ~req[a].body.present
    /\ req[a].query.present
    /\ req[a].query.code = "qcode"
    /\ ~Truthy(req[a].query.error)
    /\ signals[a] # <<>>

\* C7: a request with a body and no truthy code in its body or in its
\* query (a request without a query included) ends its attempt with the
\* fail signal, with no exchange call and without raising an exception.
C7_NoCodeFails ==
  \A a \in Attempts :
    ( /\ Started(a)
      /\ req[a].body.present
      /\ ~Truthy(req[a].body.code)
      /\ ~(req[a].query.present /\ Truthy(req[a].query.code)) ) =>
      /\ Len(signals[a]) = 1
      /\ signals[a][1].kind = "fail"
      /\ exchangeCalls[a] = <<>>
      /\ thrown[a] = <<>>

\* C8: a call verified(err, user, info) emits error(err) when err is
\* truthy, else fail(info) when user is falsy, else success(user, info);
\* it is the first signal of its attempt, with a profile or without.
C8_VerifiedMapping ==
  \A a \in Attempts :
    \A i \in 1..Len(verifiedCalls[a]) :
      LET c == verifiedCalls[a][i] IN
      /\ signals[a] # <<>>
      /\ IF Truthy(c.err) THEN signals[a][1] = [kind |-> "error", err |-> c.err]
         ELSE IF ~Truthy(c.user) THEN signals[a][1] = [kind |-> "fail", info |-> c.info]
         ELSE signals[a][1] = [kind |-> "success", user |-> c.user, info |-> c.info]

C8_Witness ==
  \E a \in Attempts :
    /\ verifiedCalls[a] # <<>>
    /\ verifiedCalls[a][1].err = "verifyError"
    /\ verifiedCalls[a][1].user = "user1"
    /\ fetchCalls[a] # <<>>
    /\ signals[a] # <<>>

\* the skip setting has been evaluated in attempt a
SkipEvaluated(a) ==
  /\ ExchangeSucceeded(a)
  /\ skipUserProfile.form = "function" =>
       (skipResults[a] # <<>> /\ ~Truthy(skipResults[a][1].err))

\* the value the skip setting evaluated to in attempt a
SkipValue(a) ==
  IF skipUserProfile.form = "function" THEN skipResults[a][1].skip ELSE skipUserProfile.val

\* C9: when the skip setting evaluates to true (as a plain value, as a
\* function of at most one argument, which is called with no arguments, or
\* as a two-argument function completing without err), no fetch is made and
\* verify is called once with an undefined profile; when it evaluates to
\* false the fetch is made.
C9_SkipDecides ==
  \A a \in Attempts :
    SkipEvaluated(a) =>
      /\ Truthy(SkipValue(a)) =>
           /\ fetchCalls[a] = <<>>
           /\ Len(verifyCalls[a]) = 1
           /\ ProfileArg(verifyCalls[a][1]) = UndefinedProfile
      /\ ~Truthy(SkipValue(a)) => Len(fetchCalls[a]) = 1
      /\ (skipUserProfile.form = "function" /\ skipUserProfile.length <= 1) =>
           skipCalls[a] = << <<>> >>
      /\ skipUserProfile.form = "value" => skipCalls[a] = <<>>

C9_Witness ==
  \E a \in Attempts :
    /\ skipUserProfile.form = "function"
    /\ skipUserProfile.length = 2
    /\ SkipEvaluated(a)
    /\ SkipValue(a) = True
    /\ verifyCalls[a] # <<>>

\* C10: the fetch of userProfile is made with exactly the accessToken the
\* exchange of the same attempt returned, and so is the call of the
\* two-argument skip function.
C10_FetchUsesAccessToken ==
  \A a \in Attempts :
    /\ \A i \in 1..Len(fetchCalls[a]) :
         /\ ExchangeSucceeded(a)
         /\ fetchCalls[a][i].accessToken = exchangeResults[a][1].accessToken
    /\ \A i \in 1..Len(skipCalls[a]) :
         skipCalls[a][i] # <<>> =>
           /\ ExchangeSucceeded(a)
           /\ skipCalls[a][i][1] = exchangeResults[a][1].accessToken

C10_Witness ==
  \E a \in Attempts :
    /\ skipUserProfile.form = "function"
    /\ skipUserProfile.length = 2
    /\ exchangeResults[a] # <<>>
    /\ exchangeResults[a][1].accessToken = "A"
    /\ exchangeResults[a][1].refreshToken = "B"
    /\ skipCalls[a] # <<>>
    /\ fetchCalls[a] # <<>>

\* the calls done(null, profile) of userProfile in attempt a
ProfilesOf(a) ==
  { profileDone[a][i].profile : i \in { j \in 1..Len(profileDone[a]) : ~Truthy(profileDone[a][j].err) } }

\* C11: every profile userProfile hands to done without a failure has a
\* provider and an id, whatever parsable body the identity endpoint returned.
C11_ProviderAndIdPresent ==
  \A a \in Attempts :
    \A p \in ProfilesOf(a) :
      /\ p.provider # Undef
      /\ p.id # Undef

Pending(a) ==
  (Len(exchangeCalls[a]) - Len(exchangeResults[a]))
  + (Len(skipCalls[a]) - Len(skipResults[a]))
  + (Len(fetchCalls[a]) - Len(fetchResults[a]))

\* C13: the steps of an attempt are begun in the order exchange, skip
\* decision, fetch, verify, each after the one before it has completed
\* successfully and never two at a time: the skip function and the fetch are
\* called only after a successful exchange, the fetch only after the skip
\* setting evaluated to false, and verify only after the skip setting
\* evaluated to true (with an undefined profile) or the fetch produced the
\* profile verify is given.
C13_StepOrder ==
  \A a \in Attempts :
    /\ Pending(a) \in {0, 1}
    /\ exchangeResults[a] # <<>> => Len(exchangeCalls[a]) = 1
    /\ skipCalls[a] # <<>> => ExchangeSucceeded(a)
    /\ fetchCalls[a] # <<>> =>
         /\ ExchangeSucceeded(a)
         /\ SkipEvaluated(a)
         /\ ~Truthy(SkipValue(a))
    /\ verifyCalls[a] # <<>> =>
         /\ ExchangeSucceeded(a)
         /\ SkipEvaluated(a)
         /\ Pending(a) = 0
         /\ IF Truthy(SkipValue(a))
              THEN /\ fetchCalls[a] = <<>>
                   /\ ProfileArg(verifyCalls[a][1]) = UndefinedProfile
              ELSE /\ fetchResults[a] # <<>>
                   /\ ~Truthy(fetchResults[a][1].err)
                   /\ ProfileArg(verifyCalls[a][1]) \in ProfilesOf(a)

C13_Witness ==
  \E a \in Attempts :
    /\ skipUserProfile.form = "function"
    /\ skipUserProfile.length = 2
    /\ Len(exchangeResults[a]) = 1
    /\ Len(skipResults[a]) = 1
    /\ Len(fetchResults[a]) = 1
    /\ Len(verifyCalls[a]) = 1
    /\ Len(verifiedCalls[a]) = 1

\* C14: once the fetch of userProfile has completed, done has been called
\* exactly once, with a failure or with a profile and never with both, also
\* when the code that done(null, profile) runs raises an exception.
C14_DoneOnce ==
  \A a \in Attempts :
    fetchResults[a] # <<>> =>
      /\ Len(profileDone[a]) = 1
      /\ Truthy(profileDone[a][1].err) <=> (profileDone[a][1].profile = UndefinedProfile)

\* every call of verify in attempt a has been answered by a call of verified
VerifyCalledBack(a) == Len(verifiedCalls[a]) = Len(verifyCalls[a])

\* C15: an attempt in which every collaborator that was called has called
\* back exactly once does not stop without a terminal signal: when nothing
\* is left to run in it, success, fail or error has been emitted.
C15_StopsWithSignal ==
  \A a \in Attempts :
    (pc[a] = "done" /\ Pending(a) = 0 /\ VerifyCalledBack(a)) => signals[a] # <<>>

\* C16: an attempt calls each collaborator at most once: the token
\* exchange, the skip function, the fetch and verify.
C16_NoRetry ==
  \A a \in Attempts :
    /\ Len(exchangeCalls[a]) <= 1
    /\ Len(skipCalls[a]) <= 1
    /\ Len(fetchCalls[a]) <= 1
    /\ Len(verifyCalls[a]) <= 1

C16_Witness ==
  \E a \in Attempts :
    /\ Len(exchangeCalls[a]) = 1
    /\ Len(skipCalls[a]) = 1
    /\ Len(fetchCalls[a]) = 1
    /\ Len(verifyCalls[a]) = 1
    /\ Len(profileDone[a]) = 2
    /\ pc[a] = "done"

\* what attempt a handed to its collaborators and signalled comes from the
\* request and from the collaborator results of attempt a itself
OwnData(a) ==
  /\ \A i \in 1..Len(exchangeCalls[a]) :
       /\ exchangeCalls[a][i].code \in {req[a].body.code, req[a].query.code}
       /\ exchangeCalls[a][i].params.redirect_uri \in {req[a].body.redirectUri, req[a].query.redirectUri}
  /\ \A i \in 1..Len(fetchCalls[a]) :
       /\ ExchangeSucceeded(a)
       /\ fetchCalls[a][i].accessToken = exchangeResults[a][1].accessToken
  /\ \A i \in 1..Len(skipCalls[a]) :
       skipCalls[a][i] # <<>> =>
         /\ ExchangeSucceeded(a)
         /\ skipCalls[a][i][1] = exchangeResults[a][1].accessToken
  /\ \A i \in 1..Len(verifyCalls[a]) :
       LET args == verifyCalls[a][i]
           n == Len(args)
       IN  /\ n \in {4, 5}
           /\ n = 5 => args[1] = req[a]
           /\ ExchangeSucceeded(a)
           /\ args[n - 3] = exchangeResults[a][1].accessToken
           /\ args[n - 2] = exchangeResults[a][1].refreshToken
           /\ \/ args[n - 1] = UndefinedProfile
              \/ /\ fetchResults[a] # <<>>
                 /\ args[n - 1] \in ProfilesOf(a)
                 /\ args[n - 1].raw = fetchResults[a][1].body
  /\ \A i \in 1..Len(signals[a]) :
       LET sig == signals[a][i] IN
       CASE sig.kind = "success" ->
              \E j \in 1..Len(verifiedCalls[a]) :
                sig.user = verifiedCalls[a][j].user /\ sig.info = verifiedCalls[a][j].info
         [] sig.kind = "error" ->
              \E j \in 1..Len(verifiedCalls[a]) : sig.err = verifiedCalls[a][j].err
         [] sig.kind = "fail" ->
              \/ sig.info = Undef
              \/ \E j \in 1..Len(exchangeResults[a]) : sig.info = exchangeResults[a][j].err
              \/ \E j \in 1..Len(skipResults[a]) : sig.info = skipResults[a][j].err
              \/ \E j \in 1..Len(profileDone[a]) : sig.info = profileDone[a][j].err
              \/ \E j \in 1..Len(verifiedCalls[a]) : sig.info = verifiedCalls[a][j].info

\* C17: when attempts run concurrently with their callbacks interleaved,
\* the code, tokens, profile and request an attempt hands on and the signal
\* it emits are those of its own request and of its own collaborator
\* results, and no step changes the configuration.
C17_Independent ==
  /\ [](\A a \in Attempts : OwnData(a))
  /\ [][skipUserProfile' = skipUserProfile /\ passReqToCallback' = passReqToCallback]_vars

C17_Witness ==
  /\ pc[1] = "done"
  /\ pc[2] = "done"
  /\ req[1] # req[2]
  /\ Len(verifyCalls[1]) = 1
  /\ Len(verifyCalls[2]) = 1
  /\ tokens[1].accessToken # tokens[2].accessToken
  /\ fetchResults[1] # <<>>
  /\ fetchResults[2] # <<>>
  /\ fetchResults[1] # fetchResults[2]
  /\ signals[1] # signals[2]

\* C18: every call of the token exchange passes the body's code when the
\* body has one and the query's code otherwise, the body's redirectUri when
\* the body has one and the query's (possibly undefined) otherwise, each
\* chosen without regard to the other, and the grant type
\* authorization_code; a request with a query, a body, no error and a code
\* makes exactly one such call.
C18_ExchangeArguments ==
  \A a \in Attempts :
    /\ \A i \in 1..Len(exchangeCalls[a]) :
         LET c == exchangeCalls[a][i]
             r == req[a]
         IN  /\ c.code = IF Truthy(r.body.code) THEN r.body.code ELSE r.query.code
             /\ c.params.redirect_uri =
                  IF Truthy(r.body.redirectUri) THEN r.body.redirectUri ELSE r.query.redirectUri
             /\ c.params.grant_type = "authorization_code"
    /\ ( /\ Started(a)
         /\ req[a].body.present
         /\ req[a].query.present
         /\ ~Truthy(req[a].query.error)
         /\ Truthy(req[a].body.code) \/ Truthy(req[a].query.code) ) =>
       Len(exchangeCalls[a]) = 1

C18_Witness ==
  \E a \in Attempts :
    /\ req[a].body.code = "bcode"
    /\ req[a].query.code = "qcode"
    /\ req[a].body.redirectUri = Undef
    /\ req[a].query.redirectUri = "quri"
    /\ Len(exchangeCalls[a]) = 1
    /\ exchangeCalls[a][1].code = "bcode"
    /\ exchangeCalls[a][1].params.redirect_uri = "quri"

\* C19: verify is called with the accessToken and the refreshToken of the
\* attempt's own exchange, the attempt's own profile (undefined when the
\* profile was skipped) and the verified callback, in this order, preceded
\* by the attempt's request exactly when passReqToCallback is set.
C19_VerifyArguments ==
  \A a \in Attempts :
    \A i \in 1..Len(verifyCalls[a]) :
      LET args == verifyCalls[a][i]
          n == Len(args)
      IN  /\ ExchangeSucceeded(a)
          /\ IF passReqToCallback = True THEN n = 5 /\ args[1] = req[a] ELSE n = 4
          /\ args[n - 3] = exchangeResults[a][1].accessToken
          /\ args[n - 2] = exchangeResults[a][1].refreshToken
          /\ args[n] = "verified"
          /\ IF fetchCalls[a] = <<>>
               THEN args[n - 1] = UndefinedProfile
               ELSE /\ fetchResults[a] # <<>>
                    /\ args[n - 1] \in ProfilesOf(a)
                    /\ args[n - 1].raw = fetchResults[a][1].body

C19_Witness ==
  \E a \in Attempts :
    /\ passReqToCallback = True
    /\ Len(verifyCalls[a]) = 1
    /\ Len(verifyCalls[a][1]) = 5
    /\ exchangeResults[a][1].refreshToken = "B"
    /\ fetchResults[a] # <<>>

\* C20: a success signal is emitted only in an attempt whose request had
\* no query error, a body and a code, whose exchange succeeded, and whose
\* verified callback was called with no err and a truthy user; it carries
\* the user and the info of that call.
C20_SuccessOnlyIfVerified ==
  \A a \in Attempts :
    \A i \in 1..Len(signals[a]) :
      signals[a][i].kind = "success" =>
        /\ ~(req[a].query.present /\ Truthy(req[a].query.error))
        /\ req[a].body.present
        /\ Truthy(req[a].body.code) \/ Truthy(req[a].query.code)
        /\ Len(exchangeCalls[a]) = 1
        /\ ExchangeSucceeded(a)
        /\ Len(verifyCalls[a]) = 1
        /\ \E j \in 1..Len(verifiedCalls[a]) :
             /\ ~Truthy(verifiedCalls[a][j].err)
             /\ Truthy(verifiedCalls[a][j].user)
             /\ signals[a][i].user = verifiedCalls[a][j].user
             /\ signals[a][i].info = verifiedCalls[a][j].info

C20_Witness ==
  \E a \in Attempts :
    /\ signals[a] # <<>>
    /\ signals[a][1].kind = "success"
    /\ signals[a][1].info = "info1"
    /\ verifiedCalls[a] # <<>>
====
